---- MODULE Spec2Model ----
(***************************************************************************)
(* TarDirectory.py: the "TAR Directory" action of the Flame MediaHub.      *)
(* Strings are sequences of one-character strings, so that rstrip, rfind,  *)
(* rsplit, join, basename, dirname and format are computed character by    *)
(* character as the Python code computes them.                             *)
(***************************************************************************)
EXTENDS Integers, Sequences, FiniteSets, TLC

\* ------------------------------------------------------------------ bounds
\* longest selection the host hands to the action
MaxSel == 2
\* most '/' characters appended to a browsed path
MaxSlashes == 1

\* ------------------------------------------------------- string literals
\* '/opt/Autodesk/backburner/cmdjob'
CMDJOB ==
  <<"/","o","p","t","/","A","u","t","o","d","e","s","k","/","b","a","c","k",
    "b","u","r","n","e","r","/","c","m","d","j","o","b">>

\* 'manager'
BBMANAGER ==
  <<"m","a","n","a","g","e","r">>

\* 'TARNODES'
BBGROUP ==
  <<"T","A","R","N","O","D","E","S">>

\* '30'
PRIORITY ==
  <<"3","0">>

\* the module-level dict config
config ==
  [k \in {"BBMANAGER", "BBGROUP", "PRIORITY", "CMDJOB"} |->
     CASE k = "BBMANAGER" -> BBMANAGER
       [] k = "BBGROUP"   -> BBGROUP
       [] k = "PRIORITY"  -> PRIORITY
       [] k = "CMDJOB"    -> CMDJOB]

\* '_xyz/'
XYZ ==
  <<"_","x","y","z","/">>

\* '_dcdm/'
DCDM ==
  <<"_","d","c","d","m","/">>

\* '.tar'
S_tar ==
  <<".","t","a","r">>

\* ' DCDM'
S_DCDM ==
  <<" ","D","C","D","M">>

\* A template as string.Formatter.parse reads it: literal text and
\* replacement fields {NAME}, in order.
Lit(text)   == [kind |-> "lit", text |-> text, name |-> ""]
Field(name) == [kind |-> "field", text |-> <<>>, name |-> name]

\* The twelve templates of cmdline.
cmdline_template ==
  << <<Field("CMDJOB")>>,
     <<Lit(<<"-","m","a","n","a","g","e","r",":">>), Field("BBMANAGER")>>,
     <<Lit(<<"-","g","r","o","u","p",":">>), Field("BBGROUP")>>,
     <<Lit(<<"-","p","r","i","o","r","i","t","y",":">>), Field("PRIORITY")>>,
     <<Lit(<<"-","j","o","b","N","a","m","e">>)>>,
     <<Field("JOBNAME")>>,
     <<Lit(<<"-","u","s","e","r","R","i","g","h","t","s">>)>>,
     <<Lit(<<"-","d","e","s","c","r","i","p","t","i","o","n">>)>>,
     <<Lit(<<"T","A","R"," ","+"," ","L","i","s","t"," ","f","i","l","e">>)>>,
     <<Lit(<<"s","h">>)>>,
     <<Lit(<<"-","c">>)>>,
     <<Lit(<<"/","u","s","r","/","b","i","n","/","t","a","r"," ","-","c","f",
             " ">>),
       Field("TARNAME"),
       Lit(<<".","t","a","r"," ","-","C"," ">>),
       Field("PARENTDIR"),
       Lit(<<" ">>),
       Field("BASENAME"),
       Lit(<<" ",";"," "," ","t","a","r"," ","-","t","v","f"," ">>),
       Field("TARNAME"),
       Lit(<<".","t","a","r"," ","|"," ","s","o","r","t"," ",">"," ">>),
       Field("TARNAME"),
       Lit(<<".","t","a","r",".","l","i","s","t">>)>> >>

\* ------------------------------------------------------ string functions
\* s[a:b] of Python, 0-based and half-open
Slice(s, a, b) == SubSeq(s, a + 1, b)

\* str.startswith at offset k (0-based)
MatchAt(s, sub, k) ==
  /\ k >= 0
  /\ k + Len(sub) <= Len(s)
  /\ \A j \in 1..Len(sub) : s[k + j] = sub[j]

\* str.rstrip(chars) for a single character
RECURSIVE rstrip(_, _)
rstrip(s, ch) ==
  IF s # <<>> /\ s[Len(s)] = ch THEN rstrip(Slice(s, 0, Len(s) - 1), ch) ELSE s

\* str.rfind(sub): the highest 0-based index where sub starts, or -1;
\* the scan runs from the right end of s towards the left
RECURSIVE rfind_from(_, _, _)
rfind_from(s, sub, k) ==
  IF k < 0 THEN -1
  ELSE IF MatchAt(s, sub, k) THEN k
  ELSE rfind_from(s, sub, k - 1)

rfind(s, sub) == rfind_from(s, sub, Len(s) - Len(sub))

\* rsplit gone wrong: the split is taken at the leftmost separator, as
\* str.split would
rsplit_FromLeft(s, sep, maxsplit) ==
  LET ks == {k \in 0..(Len(s) - Len(sep)) : MatchAt(s, sep, k)} IN
  IF maxsplit = 0 \/ ks = {} THEN <<s>>
  ELSE LET k == CHOOSE m \in ks : \A j \in ks : m <= j
       IN <<Slice(s, 0, k), Slice(s, k + Len(sep), Len(s))>>

\* str.rsplit(sep, maxsplit): at most maxsplit splits, taken from the right
RECURSIVE rsplit(_, _, _)
rsplit(s, sep, maxsplit) ==
  LET k == rfind(s, sep) IN
  IF maxsplit = 0 \/ k < 0 THEN <<s>>
  ELSE rsplit(Slice(s, 0, k), sep, maxsplit - 1)
         \o <<Slice(s, k + Len(sep), Len(s))>>

\* str.join
RECURSIVE join(_, _)
join(glue, parts) ==
  IF parts = <<>> THEN <<>>
  ELSE IF Len(parts) = 1 THEN parts[1]
  ELSE parts[1] \o glue \o join(glue, Tail(parts))

\* posixpath.basename
basename(p) ==
  LET i == rfind(p, <<"/">>) + 1 IN Slice(p, i, Len(p))

\* posixpath.dirname
dirname(p) ==
  LET i == rfind(p, <<"/">>) + 1
      head == Slice(p, 0, i)
  IN IF head # <<>> /\ rstrip(head, "/") # <<>> THEN rstrip(head, "/") ELSE head

\* str.format(**vars) on one template: literal text is copied, a field is
\* replaced by the value stored under its name
RECURSIVE format(_, _)
format(t, vars) ==
  IF t = <<>> THEN <<>>
  ELSE (IF Head(t).kind = "field" THEN vars[Head(t).name] ELSE Head(t).text)
         \o format(Tail(t), vars)

\* ------------------------------------------------- functions of the hook
rreplace(s, old, new, count) == join(new, rsplit(s, old, count))

get_dest_path(srcpath) ==
  LET found == rfind(srcpath, XYZ) IN
  IF found >= 0 THEN rreplace(srcpath, XYZ, DCDM, 1) ELSE srcpath

\* tar_vars gone wrong: the archive is named after the source path
tar_vars_SourceName(p, destpath) ==
  ("TARNAME" :> p) @@ ("BASENAME" :> basename(p))
    @@ ("JOBNAME" :> basename(p) \o S_DCDM) @@ ("PARENTDIR" :> dirname(p))
    @@ config

\* tar_vars gone wrong: the -C directory is taken from the destination
tar_vars_DestParent(p, destpath) ==
  ("TARNAME" :> destpath) @@ ("BASENAME" :> basename(p))
    @@ ("JOBNAME" :> basename(p) \o S_DCDM)
    @@ ("PARENTDIR" :> dirname(destpath))
    @@ config

\* vars = config.copy() and the four entries added to it
tar_vars(p, destpath) ==
  ("TARNAME" :> destpath) @@ ("BASENAME" :> basename(p))
    @@ ("JOBNAME" :> basename(p) \o S_DCDM) @@ ("PARENTDIR" :> dirname(p))
    @@ config

\* cmdline = [x.format(**vars) for x in cmdline]
format_cmdline(vars) ==
  [n \in 1..Len(cmdline_template) |-> format(cmdline_template[n], vars)]

\* ------------------------------------------------------------- the inputs
\* exit statuses of cmdjob seen by the test: 0 = success, 6 = connection
\* refused
ExitCodes == {0, 6}

P_root == <<"/">>
P_xyz == <<"/","a","_","x","y","z">>
P_sub2 == <<"/","b","_","x","y","z","/","s","/","u">>
P_two == <<"/","b","_","x","y","z","/","c","_","x","y","z","/","s">>

\* the entries the browser can show, written without a trailing slash
BasePaths == {P_root, P_xyz, P_sub2, P_two}

\* the entries that may be regular files instead of directories
FileCandidates == {P_xyz}

Slashes(n) == [k \in 1..n |-> "/"]

\* the entries that are also selected with trailing slashes
SlashedPaths == {P_root, P_xyz, P_sub2}

\* the paths an item of the selection can carry
SelPaths ==
  BasePaths \cup {p \o Slashes(n) : p \in SlashedPaths, n \in 1..MaxSlashes}

Selections == UNION {[1..n -> SelPaths] : n \in 0..MaxSel}

\* ------------------------------------------------------------------ state
VARIABLES
  sel,           \* the selection: the path of each selected item
  dirs,          \* the file system: the paths that are directories
  test_mode,     \* the test_mode argument of the call of tardir_go
  pc,            \* "menu", "start", "loop", "run", "done", "raised"
  is_enabled,    \* what menu_enabled returned
  i,             \* 1-based position of curitem in sel
  path,          \* curitem.path without trailing slashes
  archive_path,  \* path + '.tar'
  destpath,      \* get_dest_path(path)
  cmdline,       \* the formatted argument list
  returncodes,   \* the list tardir_go accumulates
  result,        \* what tardir_go returned
  events,        \* the prompts shown, in order, each with its answer
  jobs           \* the processes started by subprocess.Popen, in order

vars == <<sel, dirs, test_mode, pc, is_enabled, i, path, archive_path,
          destpath, cmdline, returncodes, result, events, jobs>>

\* os.path.isdir: the root is a directory, a trailing slash on a directory
\* names the same directory, a trailing slash on a regular file names nothing
isdir(p) ==
  /\ p # <<>>
  /\ \/ rstrip(p, "/") = <<>>
     \/ rstrip(p, "/") \in dirs

\* the loop of menu_enabled after k items, starting from flag
RECURSIVE menu_enabled_loop(_, _, _)
menu_enabled_loop(s, k, flag) ==
  IF k > Len(s) THEN flag
  ELSE menu_enabled_loop(s, k + 1, IF isdir(s[k]) THEN TRUE ELSE flag)

menu_enabled_value(s) == menu_enabled_loop(s, 1, FALSE)

Event(e, n, a) == [ev |-> e, item |-> n, ans |-> a]

NoResult   == [kind |-> "unset", val |-> <<>>]
NoneResult == [kind |-> "None", val |-> <<>>]

Init ==
  /\ sel \in Selections
  /\ dirs \in {BasePaths \ f : f \in SUBSET FileCandidates}
  /\ test_mode = FALSE
  /\ pc = "menu"
  /\ is_enabled = FALSE
  /\ i = 0
  /\ path = <<>>
  /\ archive_path = <<>>
  /\ destpath = <<>>
  /\ cmdline = <<>>
  /\ returncodes = <<>>
  /\ result = NoResult
  /\ events = <<>>
  /\ jobs = <<>>

\* the host evaluates isEnabled on the selection before it offers the action
menu_enabled ==
  /\ pc = "menu"
  /\ is_enabled' = menu_enabled_value(sel)
  /\ pc' = "start"
  /\ UNCHANGED <<sel, dirs, test_mode, i, path, archive_path, destpath,
                 cmdline, returncodes, result, events, jobs>>

\* Confirm gone wrong: the answer is not looked at
Confirm_IgnoresAnswer ==
  /\ pc = "start"
  /\ test_mode' \in BOOLEAN
  /\ \E ans \in BOOLEAN :
       events' = Append(events, Event("confirm", 0, ans))
  /\ pc' = "loop"
  /\ i' = 1
  /\ returncodes' = <<>>
  /\ UNCHANGED <<sel, dirs, is_enabled, path, archive_path, destpath,
                 cmdline, result, jobs>>

\* tardir_go is called, lines 77-85: its test_mode argument is fixed and the
\* confirmation prompt for the whole selection is shown
Confirm ==
  /\ pc = "start"
  /\ test_mode' \in BOOLEAN
  /\ \E ans \in BOOLEAN :
       /\ events' = Append(events, Event("confirm", 0, ans))
       /\ IF ans
          THEN /\ pc' = "loop"
               /\ i' = 1
               /\ result' = result
          ELSE /\ pc' = "done"
               /\ i' = i
               /\ result' = NoneResult
  /\ returncodes' = <<>>
  /\ UNCHANGED <<sel, dirs, is_enabled, path, archive_path, destpath,
                 cmdline, jobs>>

\* SkipNotDir gone wrong: break in place of continue
SkipNotDir_Breaks ==
  /\ pc = "loop"
  /\ i <= Len(sel)
  /\ ~isdir(sel[i])
  /\ i' = Len(sel) + 1
  /\ UNCHANGED <<sel, dirs, test_mode, pc, is_enabled, path, archive_path,
                 destpath, cmdline, returncodes, result, events, jobs>>

\* lines 86-88: an item that is not a directory is passed over
SkipNotDir ==
  /\ pc = "loop"
  /\ i <= Len(sel)
  /\ ~isdir(sel[i])
  /\ i' = i + 1
  /\ UNCHANGED <<sel, dirs, test_mode, pc, is_enabled, path, archive_path,
                 destpath, cmdline, returncodes, result, events, jobs>>

\* lines 89-117, one directory item up to its formatted command: the
\* trailing slashes are stripped; if path + '.tar' exists (the file system's
\* answer at that moment) the user is asked and a Cancel passes the item
\* over; otherwise the destination, the variables and the command are
\* computed, and in test mode that command is returned
BuildCommand ==
  /\ pc = "loop"
  /\ i <= Len(sel)
  /\ isdir(sel[i])
  /\ path' = rstrip(sel[i], "/")
  /\ archive_path' = path' \o S_tar
  /\ \E isfile \in BOOLEAN, ans \in BOOLEAN :
       /\ ~isfile => ans
       /\ events' = IF isfile THEN Append(events, Event("overwrite", i, ans))
                    ELSE events
       /\ IF isfile /\ ~ans
          THEN /\ pc' = "loop"
               /\ i' = i + 1
               /\ UNCHANGED <<destpath, cmdline, result>>
          ELSE /\ destpath' = get_dest_path(path')
               /\ \E v \in {tar_vars(path', destpath')} :
                    cmdline' = format_cmdline(v)
               /\ i' = i
               /\ IF test_mode
                  THEN /\ result' = [kind |-> "cmdline", val |-> cmdline']
                       /\ pc' = "done"
                  ELSE /\ result' = result
                       /\ pc' = "run"
  /\ UNCHANGED <<sel, dirs, test_mode, is_enabled, returncodes, jobs>>

\* Run gone wrong: a failed job ends the loop
Run_StopsOnFailure ==
  /\ pc = "run"
  /\ \E rc \in ExitCodes :
       /\ jobs' = Append(jobs, [item |-> i, cmd |-> cmdline, rc |-> rc])
       /\ returncodes' = Append(returncodes, rc)
       /\ i' = IF rc = 0 THEN i + 1 ELSE Len(sel) + 1
  /\ pc' = "loop"
  /\ UNCHANGED <<sel, dirs, test_mode, is_enabled, path, archive_path,
                 destpath, cmdline, result, events>>

\* lines 120-123: the job runs to its end and its status is recorded
Run ==
  /\ pc = "run"
  /\ \E rc \in ExitCodes :
       /\ jobs' = Append(jobs, [item |-> i, cmd |-> cmdline, rc |-> rc])
       /\ returncodes' = Append(returncodes, rc)
  /\ i' = i + 1
  /\ pc' = "loop"
  /\ UNCHANGED <<sel, dirs, test_mode, is_enabled, path, archive_path,
                 destpath, cmdline, result, events>>

\* lines 120 and 125-127: subprocess.Popen cannot start cmdjob; the
\* exception is logged and raised again
PopenRaises ==
  /\ pc = "run"
  /\ pc' = "raised"
  /\ UNCHANGED <<sel, dirs, test_mode, is_enabled, i, path, archive_path,
                 destpath, cmdline, returncodes, result, events, jobs>>

\* line 124: the loop is over
Return ==
  /\ pc = "loop"
  /\ i > Len(sel)
  /\ result' = [kind |-> "list", val |-> returncodes]
  /\ pc' = "done"
  /\ UNCHANGED <<sel, dirs, test_mode, is_enabled, i, path, archive_path,
                 destpath, cmdline, returncodes, events, jobs>>

Next ==
  \/ menu_enabled
  \/ Confirm
  \/ SkipNotDir
  \/ BuildCommand
  \/ Run
  \/ PopenRaises
  \/ Return

Spec == Init /\ [][Next]_vars

\* ------------------------------------------------------------ properties
\* the path without its trailing slashes, said without rstrip: the prefix of
\* raw that does not end in '/' and is followed by slashes only
Stripped(raw) ==
  CHOOSE p \in {SubSeq(raw, 1, n) : n \in 0..Len(raw)} :
    /\ p = <<>> \/ p[Len(p)] # "/"
    /\ \A j \in (Len(p) + 1)..Len(raw) : raw[j] = "/"

\* the 1-based positions where '_xyz/' occurs in p
Occ(p) ==
  {k \in 1..(Len(p) - Len(XYZ) + 1) : SubSeq(p, k, k + Len(XYZ) - 1) = XYZ}

\* p with the occurrence of '_xyz/' at position k rewritten to '_dcdm/'
RewriteAt(p, k) ==
  SubSeq(p, 1, k - 1) \o DCDM \o SubSeq(p, k + Len(XYZ), Len(p))

Last(S) == CHOOSE k \in S : \A j \in S : j <= k

\* the shell command that archives base under parent into d.tar and lists
\* d.tar into d.tar.list
ShellCommand(d, parent, base) ==
  <<"/","u","s","r","/","b","i","n","/","t","a","r"," ","-","c","f"," ">>
    \o d \o <<".","t","a","r"," ","-","C"," ">> \o parent \o <<" ">> \o base
    \o <<" ",";"," "," ","t","a","r"," ","-","t","v","f"," ">>
    \o d \o <<".","t","a","r"," ","|"," ","s","o","r","t"," ",">"," ">>
    \o d \o <<".","t","a","r",".","l","i","s","t">>

\* the positions of the selected items that are directories
DirItems == {n \in 1..Len(sel) : isdir(sel[n])}

Answered == events # <<>> /\ events[1].ev = "confirm"
AnsweredYes == Answered /\ events[1].ans
Cancelled == Answered /\ ~events[1].ans
Declined == {n \in 1..Len(sel) :
               \E e \in 1..Len(events) :
                 events[e] = Event("overwrite", n, FALSE)}

\* a command line has just been formatted for item i: it is about to be
\* handed to subprocess.Popen, or it was returned in test mode
JustBuilt == pc = "run" \/ result.kind = "cmdline"

\* C1: after a yes to the confirmation and with no overwrite prompt
\* declined, a run without test_mode that returns has started one cmdjob
\* process per selected directory item, in selection order, whatever the
\* exit statuses were, and returns the list of their exit statuses in that
\* order.
C1_OneJobPerDirectory ==
  (pc = "done" /\ ~test_mode /\ AnsweredYes /\ Declined = {}) =>
    /\ result.kind = "list"
    /\ Len(jobs) = Cardinality(DirItems)
    /\ \A n \in DirItems : \E k \in 1..Len(jobs) : jobs[k].item = n
    /\ \A k \in 1..Len(jobs) :
         /\ jobs[k].cmd[1] = CMDJOB
         /\ k < Len(jobs) => jobs[k].item < jobs[k + 1].item
    /\ Len(result.val) = Len(jobs)
    /\ \A k \in 1..Len(jobs) : result.val[k] = jobs[k].rc

\* C1 witness: the same directory selected twice, two jobs, the first of
\* which failed
C1_Witness ==
  /\ pc = "done"
  /\ result.kind = "list"
  /\ Len(sel) = 2
  /\ sel[1] = sel[2]
  /\ Len(jobs) = 2
  /\ result.val = <<6, 0>>

\* C2: every formatted command has twelve elements, the first is
\* config['CMDJOB'], the job name is basename(P) + ' DCDM' and the last is
\* the shell command on D = get_dest_path(P), dirname(P) and basename(P),
\* with P the selected path without its trailing slashes.
C2_CommandLine ==
  JustBuilt =>
    LET P == Stripped(sel[i])
        D == get_dest_path(P)
    IN /\ Len(cmdline) = 12
       /\ cmdline[1] = config["CMDJOB"]
       /\ cmdline[6] = basename(P) \o S_DCDM
       /\ cmdline[12] = ShellCommand(D, dirname(P), basename(P))
       /\ result.kind = "cmdline" => result.val = cmdline

\* C2 witness: the command of the test, for '/a_xyz/' in place of
\* '/tmp/foo/'
C2_Witness ==
  /\ result.kind = "cmdline"
  /\ sel[i] = P_xyz \o <<"/">>
  /\ result.val[12] = ShellCommand(P_xyz, <<"/">>, <<"a","_","x","y","z">>)

\* C3: for a selected path (trailing slashes removed) that contains
\* '_xyz/', the archive and the listing are named after the path with an
\* '_xyz/' rewritten to '_dcdm/', and the -C directory and the archived name
\* are those of the path as selected.
C3_Redirected ==
  JustBuilt =>
    LET P == Stripped(sel[i]) IN
    Occ(P) # {} =>
      \E k \in Occ(P) :
        /\ RewriteAt(P, k) # P
        /\ cmdline[12] = ShellCommand(RewriteAt(P, k), dirname(P), basename(P))

\* C3 witness: a job for '/b_xyz/s/u', two levels below the _xyz directory
C3_Witness ==
  \E k \in 1..Len(jobs) :
    /\ sel[jobs[k].item] = P_sub2
    /\ jobs[k].cmd[12] =
         ShellCommand(<<"/","b","_","d","c","d","m","/","s","/","u">>,
                      <<"/","b","_","x","y","z","/","s">>, <<"u">>)

\* C4 (as stated): the command formatted for P followed by any number of
\* '/' is the command formatted for P, and its base name is not empty.
C4_TrailingSlashes ==
  JustBuilt =>
    \A P \in BasePaths, n \in 0..MaxSlashes :
      sel[i] = P \o Slashes(n) =>
        /\ cmdline = format_cmdline(tar_vars(rstrip(P, "/"),
                                             get_dest_path(rstrip(P, "/"))))
        /\ cmdline[6] # S_DCDM

\* C5: nothing happens before the confirmation prompt, the prompt is the
\* first event, and a Cancel ends the run at once with the result None.
C5_ConfirmFirst ==
  /\ pc \in {"menu", "start"} =>
       /\ events = <<>>
       /\ jobs = <<>>
       /\ path = <<>> /\ destpath = <<>> /\ cmdline = <<>>
       /\ result = NoResult
  /\ pc \notin {"menu", "start"} => Answered
  /\ Cancelled =>
       /\ pc = "done"
       /\ Len(events) = 1
       /\ jobs = <<>>
       /\ cmdline = <<>>
       /\ result = NoneResult

\* C5 witness: a selection holding a directory, cancelled
C5_Witness ==
  /\ Cancelled
  /\ pc = "done"
  /\ DirItems # {}

\* C6: the action is enabled exactly when some selected item is a
\* directory; an item that is not a directory gets no prompt, no command and
\* no job, and when the run returns its list every directory of the
\* selection was either declined at the overwrite prompt or submitted.
C6_NonDirectoriesSkipped ==
  /\ pc # "menu" => (is_enabled <=> DirItems # {})
  /\ \A e \in 1..Len(events) :
       events[e].ev # "confirm" => events[e].item \in DirItems
  /\ \A k \in 1..Len(jobs) : jobs[k].item \in DirItems
  /\ JustBuilt => i \in DirItems
  /\ Len(returncodes) = Len(jobs)
  /\ result.kind = "list" =>
       /\ Len(result.val) <= Cardinality(DirItems)
       /\ \A n \in DirItems :
            n \in Declined \/ \E k \in 1..Len(jobs) : jobs[k].item = n

\* C6 witness: a regular file selected before a directory; only the
\* directory is submitted
C6_Witness ==
  /\ result.kind = "list"
  /\ Len(sel) = 2
  /\ DirItems = {2}
  /\ is_enabled
  /\ Len(jobs) = 1
  /\ Len(result.val) = 1

\* C7: the destination is the path with its rightmost '_xyz/' rewritten and
\* nothing else changed, and the path itself when it holds no '_xyz/', as
\* for a directory whose own name ends in '_xyz'.
C7_RightmostOnly ==
  JustBuilt =>
    LET P == Stripped(sel[i]) IN
    /\ Occ(P) = {} => destpath = P
    /\ Occ(P) # {} => destpath = RewriteAt(P, Last(Occ(P)))
    /\ cmdline[12] = ShellCommand(destpath, dirname(P), basename(P))

\* C7 witness: '/a_xyz/' was archived next to itself, and '/b_xyz/c_xyz/s'
\* keeps its first '_xyz/'
C7_Witness ==
  /\ Len(jobs) = 1
  /\ sel[jobs[1].item] = P_xyz \o <<"/">>
  /\ jobs[1].cmd[12] = ShellCommand(P_xyz, <<"/">>, <<"a","_","x","y","z">>)
  /\ pc = "run"
  /\ sel[i] = P_two
  /\ destpath = <<"/","b","_","x","y","z","/","c","_","d","c","d","m","/","s">>

====
